---- MODULE Spec2Model ----
(***************************************************************************)
(* Per-conversation ordered job queue of the ai-api package:               *)
(*   routes/chat.py        enqueue_chat, get_stream_job_status,            *)
(*                         get_job_status                                  *)
(*   streams/consumer.py   discover_active_streams, process_user_stream,   *)
(*                         process_single_message, run_stream_consumer     *)
(*   streams/processor.py  process_chat_job_direct                         *)
(*   queue/utils.py        save_job_chunk, get_job_chunks,                 *)
(*                         set_job_metadata, get_job_metadata              *)
(*   main.py               stream_job_chunks                               *)
(* streams/manager.py (add_message_to_stream, read_stream_messages,        *)
(* acknowledge_message) is not part of the sources; its three operations   *)
(* are modelled from the Durable Append Log contract (XAdd, ReadNext,      *)
(* Acknowledge below).                                                     *)
(*                                                                         *)
(* Text is a sequence of characters, so that string concatenation is       *)
(* sequence concatenation.  One step of the model is the code between two  *)
(* suspension points (awaits) of a coroutine.  Relay keys do not expire    *)
(* here: every behaviour lies within the TTL window of its keys.           *)
(***************************************************************************)
EXTENDS Integers, Sequences, FiniteSets, TLC

\* ---------------------------------------------------------------- bounds
MaxJobs == 2
MaxChunks == 2
MaxFaults == 1
MaxMalformed == 1

Users == {"u1", "u2"}
Jobs == 1..MaxJobs
\* the text fragment the agent yields as its i-th one (stream_text deltas are
\* non-empty); how many it yields and whether it raises is left open
AgentFragment(i) == IF i % 2 = 0 THEN <<"a">> ELSE <<"b", "c">>
Tokens == {AgentFragment(i) : i \in 0..MaxChunks}

\* consumer.py:80  read_stream_messages(redis, user_id, count=1)
ReadCount == 1

VARIABLES
    log,        \* log[u]: the entries (job ids) of stream:user:<u>, oldest first
    delivered,  \* delivered[u]: number of entries delivered to the consumer group
    acked,      \* acked[u]: positions of the entries acknowledged by the group
    chunks,     \* chunks[j]: the list job:chunks:<j>
    meta,       \* meta: job id -> the record stored under job:meta:<j>
    history,    \* history[u]: the rows of conversation u in the message table
    nextJob,    \* the next fresh job id (uuid4 of enqueue_chat)
    loopPc,     \* position of run_stream_consumer
    keys,       \* stream keys returned by the scan of the current cycle
    scanned,    \* keys already inspected in the current cycle
    active,     \* active_streams of the current cycle
    task,       \* task[u]: locals and position of process_user_stream(u)
    ntasks,     \* ntasks[u]: process_user_stream(u) coroutines that have not returned
    invoked,    \* jobs on which process_chat_job_direct has been called
    ackLost,    \* ackLost[u]: entries whose last acknowledge call raised without effect
    faults,     \* store calls that have failed so far
    poll,       \* locals and position of one get_job_status request
    sub,        \* locals and position of one stream_job_chunks.generate
    failed,     \* jobs for which process_chat_job_direct has raised
    enq,        \* the response of the last enqueue_chat request
    scan        \* cursor and logged errors of the scan loop of the discovery

vars == <<log, delivered, acked, chunks, meta, history, nextJob, loopPc, keys,
          scanned, active, task, ntasks, invoked, ackLost, faults, poll, sub,
          failed, enq, scan>>

storeVars == <<log, delivered, acked>>
relayVars == <<chunks, meta>>
loopVars == <<loopPc, keys, scanned, active>>

\* full_response of a response: <<>> is None, <<text>> is the string text
IdlePoll == [pc |-> "idle", job |-> 0, status |-> "", chunks |-> <<>>,
             total_chunks |-> 0, complete |-> FALSE, full_response |-> <<>>]

IdleTask == [pc |-> "idle", cur |-> 0, chunk_index |-> 0, full_response |-> <<>>]

\* the responses of enqueue_chat: none yet, EnqueueResponse(job_id, "queued")
\* (routes/chat.py:354), HTTPException(500) (routes/chat.py:358)
NoResponse == [code |-> 0, status |-> "", job_id |-> 0]
EnqueueResponse(job_id) == [code |-> 200, status |-> "queued", job_id |-> job_id]
InternalServerError == [code |-> 500, status |-> "", job_id |-> 0]

\* routes/chat.py:279-282  HTTPException(400, "Only PDF documents are supported")
BadRequest == [code |-> 400, status |-> "", job_id |-> 0]

\* routes/chat.py:356-358  except Exception of enqueue_chat: whatever was
\* raised inside the try, an HTTPException included, is answered with 500
EnqueueExcept(exc) == InternalServerError

\* main.py:845  last_index = -1; sent: the events yielded to the client so far
IdleSub == [pc |-> "idle", job |-> 0, last_index |-> -1, sent |-> <<>>]

Init ==
    /\ log = [u \in Users |-> <<>>]
    /\ delivered = [u \in Users |-> 0]
    /\ acked = [u \in Users |-> {}]
    /\ chunks = [j \in Jobs |-> <<>>]
    /\ meta = <<>>
    /\ history = [u \in Users |-> {}]
    /\ nextJob = 1
    /\ loopPc = "discover"
    /\ keys = {}
    /\ scanned = {}
    /\ active = {}
    /\ task = [u \in Users |-> IdleTask]
    /\ ntasks = [u \in Users |-> 0]
    /\ invoked = {}
    /\ ackLost = [u \in Users |-> {}]
    /\ faults = 0
    /\ poll = IdlePoll
    /\ sub = IdleSub
    /\ failed = {}
    /\ enq = NoResponse
    /\ scan = [cursor |-> 0, errors |-> 0]

\* store calls (log, relay, history store) may fail while the fault budget lasts
FailuresLeft(n) == faults + n <= MaxFaults
MayFail == FailuresLeft(1)

\* ------------------------------------------------- Durable Append Log
\* append(key, record) -> entry_id
XAdd(l, j) == Append(l, j)

\* read_next: the next never-delivered entries, oldest first, at most count
ReadNext(u, count) ==
    LET last == IF delivered[u] + count < Len(log[u])
                THEN delivered[u] + count ELSE Len(log[u])
    IN  [i \in 1..(last - delivered[u]) |-> delivered[u] + i]

\* mutant of Acknowledge: a second acknowledgment undoes the first
AcknowledgeToggle(s, pos) == IF pos \in s THEN s \ {pos} ELSE s \cup {pos}

\* acknowledge(key, entry_id): marks the entry as done; idempotent
Acknowledge(s, pos) == s \cup {pos}

\* xpending(stream_key, GROUP_NAME)["pending"]
Pending(u) == {i \in 1..delivered[u] : i \notin acked[u]}

\* xread(streams={stream_key: "0-0"}, count=1): the first entry of the stream
XReadFromStart(u) == IF Len(log[u]) > 0 THEN <<1>> ELSE <<>>

\* --------------------------------------------------------- history store
\* database.py save_message: one more row in the conversation's messages; a row
\* is identified by the job it belongs to, its role and its partial mark
SaveMessage(h, msg) == h \cup {msg}

\* --------------------------------------------------------- enqueue_chat
\* routes/chat.py:186-282, 356-358  a request with a document whose MIME type
\* is not application/pdf: the user message is saved at :238-249, the
\* HTTPException(400) raised at :279 is caught by the handler at :356
EnqueueChatNonPdf(u) ==
    /\ nextJob <= MaxJobs
    /\ history' = [history EXCEPT ![u] =
                      SaveMessage(@, [role |-> "user", job |-> 0,
                                      partial |-> FALSE, content |-> <<>>])]
    /\ enq' = EnqueueExcept(BadRequest)
    /\ UNCHANGED <<poll, storeVars, relayVars, nextJob, loopVars, task, ntasks,
                   invoked, ackLost, faults, sub, failed, scan>>

\* mutant of EnqueueChat: the record is appended without the user message
\* having been saved
EnqueueChatUnsaved(u) ==
    /\ nextJob <= MaxJobs
    /\ nextJob = 1 => u = "u1"
    /\ log' = [log EXCEPT ![u] = XAdd(@, nextJob)]
    /\ nextJob' = nextJob + 1
    /\ enq' = EnqueueResponse(nextJob)
    /\ UNCHANGED <<poll, delivered, acked, relayVars, history, loopVars, task, ntasks,
                   invoked, ackLost, faults, sub, failed, scan>>

\* routes/chat.py enqueue_chat: the user message is saved, then the job record
\* (fresh job id) is appended to the conversation's stream.  Conversations are
\* interchangeable, so the first job of a behaviour goes to "u1".
EnqueueChat(u) ==
    /\ nextJob <= MaxJobs
    /\ nextJob = 1 => u = "u1"
    /\ history' = [history EXCEPT ![u] =
                      SaveMessage(@, [role |-> "user", job |-> nextJob,
                                      partial |-> FALSE, content |-> <<>>])]
    /\ log' = [log EXCEPT ![u] = XAdd(@, nextJob)]
    /\ nextJob' = nextJob + 1
    /\ enq' = EnqueueResponse(nextJob)
    /\ UNCHANGED <<poll, delivered, acked, relayVars, loopVars, task, ntasks, invoked,
                   ackLost, faults,
                   sub, failed, scan>>

\* mutant of EnqueueChatFail: the record is in the stream although the
\* request is answered with the error
EnqueueChatFailAppended(u) ==
    /\ nextJob <= MaxJobs
    /\ nextJob = 1 => u = "u1"
    /\ MayFail
    /\ faults' = faults + 1
    /\ history' = [history EXCEPT ![u] =
                      SaveMessage(@, [role |-> "user", job |-> 0,
                                      partial |-> FALSE, content |-> <<>>])]
    /\ log' = [log EXCEPT ![u] = XAdd(@, nextJob)]
    /\ nextJob' = nextJob + 1
    /\ enq' = InternalServerError
    /\ UNCHANGED <<poll, delivered, acked, relayVars, loopVars, task, ntasks,
                   invoked, ackLost, sub, failed, scan>>

\* routes/chat.py:238-249, 344-348, 356-358  add_message_to_stream raises: the
\* user message is saved, nothing is appended, the job id drawn at :253 is
\* dropped and the request is answered with HTTPException(500)
EnqueueChatFail(u) ==
    /\ nextJob <= MaxJobs
    /\ nextJob = 1 => u = "u1"
    /\ MayFail
    /\ faults' = faults + 1
    /\ history' = [history EXCEPT ![u] =
                      SaveMessage(@, [role |-> "user", job |-> 0,
                                      partial |-> FALSE, content |-> <<>>])]
    /\ enq' = InternalServerError
    /\ UNCHANGED <<poll, storeVars, relayVars, nextJob, loopVars, task, ntasks,
                   invoked, ackLost, sub, failed, scan>>

\* ---------------------------------------------- discover_active_streams
\* consumer.py:33  the scan returns the stream keys that exist
DiscoverScan ==
    /\ loopPc = "discover"
    /\ keys' = {u \in Users : Len(log[u]) > 0}
    /\ scanned' = {}
    /\ active' = {}
    /\ loopPc' = "inspect"
    /\ UNCHANGED <<poll, storeVars, relayVars, history, nextJob, task, ntasks, invoked,
                   ackLost, faults,
                   sub, failed, enq, scan>>

\* mutant of DiscoverScanFail: the exception of the scan leaves discovery and
\* run_stream_consumer
DiscoverScanFailCrash ==
    /\ loopPc = "discover"
    /\ MayFail
    /\ faults' = faults + 1
    /\ keys' = {}
    /\ scanned' = {}
    /\ active' = {}
    /\ loopPc' = "crashed"
    /\ UNCHANGED <<poll, storeVars, relayVars, history, nextJob, task, ntasks, invoked,
                   ackLost, sub, failed, enq, scan>>

\* consumer.py:33, 53-57, 66  the scan raises: the exception is caught at :53,
\* the cursor is still 0, so the loop is left and the empty set is returned
DiscoverScanFail ==
    /\ loopPc = "discover"
    /\ MayFail
    /\ faults' = faults + 1
    /\ keys' = {}
    /\ scanned' = {}
    /\ active' = {}
    /\ loopPc' = "partial"
    /\ UNCHANGED <<poll, storeVars, relayVars, history, nextJob, task, ntasks, invoked,
                   ackLost, sub, failed, enq, scan>>

\* consumer.py:33  count=100 is a hint: the store returns the keys in pages and
\* a cursor that is 0 after the last page.  ScanPage is the page size of the
\* paged scan, ScanOrder the order in which the stream keys are met.
ScanPage == 1
ScanOrder == IF Len(log["u1"]) > 0
             THEN (IF Len(log["u2"]) > 0 THEN <<"u1", "u2">> ELSE <<"u1">>)
             ELSE (IF Len(log["u2"]) > 0 THEN <<"u2">> ELSE <<>>)
ScanKeys(cursor) ==
    {ScanOrder[i] : i \in {k \in 1..Len(ScanOrder) :
                              cursor < k /\ k <= cursor + ScanPage}}
ScanCursor(cursor) ==
    IF cursor + ScanPage < Len(ScanOrder) THEN cursor + ScanPage ELSE 0

\* consumer.py:54  the errors logged by the scan loop, counted modulo ErrWrap
ErrWrap == 2
LogScanError(sc) == [sc EXCEPT !.errors = (@ + 1) % ErrWrap]

\* consumer.py:33  one page of the scan: cursor, keys = await redis.scan(cursor)
DiscoverScanBatch ==
    /\ loopPc = "discover"
    /\ keys' = ScanKeys(scan.cursor)
    /\ scan' = [scan EXCEPT !.cursor = ScanCursor(scan.cursor)]
    /\ scanned' = {}
    /\ loopPc' = "inspect"
    /\ UNCHANGED <<poll, storeVars, relayVars, history, nextJob, active, task, ntasks,
                   invoked, ackLost, faults, sub, failed, enq>>

\* consumer.py:33, 53-60  a page of the scan raises: the error is logged; at
\* cursor 0 the loop is left and what was found is returned, at any other
\* cursor the loop goes round and scans from the same cursor again
DiscoverScanBatchFail ==
    /\ loopPc = "discover"
    /\ keys' = {}
    /\ scanned' = {}
    /\ scan' = LogScanError(scan)
    /\ loopPc' = IF scan.cursor = 0 THEN "partial" ELSE "discover"
    /\ UNCHANGED <<poll, storeVars, relayVars, history, nextJob, active, task, ntasks,
                   invoked, ackLost, faults, sub, failed, enq>>

\* consumer.py:49, 53-60  the read for new messages raises while key u of a
\* page is inspected: the rest of the page is skipped; the cursor is that of
\* the next page, so discovery returns if it is 0 and scans on otherwise
DiscoverKeyBatchFail(u) ==
    /\ loopPc = "inspect"
    /\ u \in keys \ scanned
    /\ scanned' = scanned \cup {u}
    /\ scan' = LogScanError(scan)
    /\ loopPc' = IF scan.cursor = 0 THEN "partial" ELSE "discover"
    /\ UNCHANGED <<poll, storeVars, relayVars, history, nextJob, keys, active, task,
                   ntasks, invoked, ackLost, faults, sub, failed, enq>>

\* consumer.py:59-60, 31  every key of the page is inspected and the cursor is
\* not 0: the next page
DiscoverNextBatch ==
    /\ loopPc = "inspect"
    /\ scanned = keys
    /\ scan.cursor # 0
    /\ loopPc' = "discover"
    /\ UNCHANGED <<poll, storeVars, relayVars, history, nextJob, keys, scanned, active,
                   task, ntasks, invoked, ackLost, faults, sub, failed, enq, scan>>

\* mutant of StreamIsActive: the read for new messages is left out
StreamIsActivePendingOnly(u) == Cardinality(Pending(u)) > 0

\* mutant of StreamIsActive: only never-delivered entries make a key active
StreamIsActiveNewOnly(u) == delivered[u] < Len(log[u])

\* consumer.py:39-51  a key is active when it has pending entries or, failing
\* that, when a read from the start of the stream returns an entry
StreamIsActive(u) ==
    IF Cardinality(Pending(u)) > 0 THEN TRUE ELSE XReadFromStart(u) # <<>>

DiscoverKey(u) ==
    /\ loopPc = "inspect"
    /\ u \in keys \ scanned
    /\ scanned' = scanned \cup {u}
    /\ active' = IF StreamIsActive(u) THEN active \cup {u} ELSE active
    /\ UNCHANGED <<poll, storeVars, relayVars, history, nextJob, loopPc, keys, task,
                   ntasks, invoked, ackLost, faults,
                   sub, failed, enq, scan>>

\* consumer.py:49, 53-60  the read for new messages raises while key u is
\* inspected (a raising xpending is swallowed at :44-46 and leads to the same
\* read): the for loop over the scanned keys is left at :53, and as the scan
\* was complete (cursor 0) discovery returns the streams found so far
DiscoverKeyFail(u) ==
    /\ loopPc = "inspect"
    /\ u \in keys \ scanned
    /\ LET n == IF Cardinality(Pending(u)) > 0 THEN 2 ELSE 1 IN
       /\ FailuresLeft(n)
       /\ faults' = faults + n
    /\ scanned' = scanned \cup {u}
    /\ loopPc' = "partial"
    /\ UNCHANGED <<poll, storeVars, relayVars, history, nextJob, keys, active, task,
                   ntasks, invoked, ackLost, sub, failed, enq, scan>>

\* ------------------------------------------------- run_stream_consumer
\* consumer.py:209-217  one process_user_stream coroutine per discovered user,
\* all handed to asyncio.gather; the locals of the discovery are dead from here
Dispatch ==
    /\ \/ loopPc = "inspect" /\ scanned = keys /\ scan.cursor = 0
       \/ loopPc = "partial"
    /\ IF active = {}
       THEN /\ loopPc' = "sleep"
            /\ UNCHANGED <<task, ntasks>>
       ELSE /\ loopPc' = "gather"
            /\ task' = [u \in Users |->
                          IF u \in active THEN [IdleTask EXCEPT !.pc = "read"]
                          ELSE task[u]]
            /\ ntasks' = [u \in Users |->
                          IF u \in active THEN ntasks[u] + 1 ELSE ntasks[u]]
    /\ keys' = {}
    /\ scanned' = {}
    /\ active' = {}
    /\ UNCHANGED <<poll, storeVars, relayVars, history, nextJob, invoked, ackLost,
                   faults,
                   sub, failed, enq, scan>>

\* mutant of GatherReturned: the tasks are started but not awaited
GatherNoWait == TRUE

\* mutant of GatherReturned: the wait ends when the first task has returned
GatherFirstReturned == \E u \in Users : ntasks[u] = 0

\* consumer.py:217  await asyncio.gather(*tasks, return_exceptions=True)
GatherReturned == \A u \in Users : ntasks[u] = 0

GatherReturn ==
    /\ loopPc = "gather"
    /\ GatherReturned
    /\ loopPc' = "sleep"
    /\ UNCHANGED <<poll, storeVars, relayVars, history, nextJob, keys, scanned, active,
                   task, ntasks, invoked, ackLost, faults,
                   sub, failed, enq, scan>>

\* mutant of CycleSleep: the loop ends after its first cycle
CycleSleepOnce ==
    /\ loopPc = "sleep"
    /\ loopPc' = "stopped"
    /\ UNCHANGED <<poll, storeVars, relayVars, history, nextJob, keys, scanned, active,
                   task, ntasks, invoked, ackLost, faults, sub, failed, enq, scan>>

\* consumer.py:233  await asyncio.sleep(1), then the next discovery cycle
CycleSleep ==
    /\ loopPc = "sleep"
    /\ loopPc' = "discover"
    /\ UNCHANGED <<poll, storeVars, relayVars, history, nextJob, keys, scanned, active,
                   task, ntasks, invoked, ackLost, faults,
                   sub, failed, enq, scan>>

\* ------------------------------------------------- process_user_stream
JobOf(u) == log[u][task[u].cur]

\* mutant of PartialSave: the save does not depend on anything being received
PartialSaveAlways(h, j, full, saved) ==
    IF saved
    THEN SaveMessage(h, [role |-> "assistant", job |-> j, partial |-> TRUE,
                         content |-> full])
    ELSE h

\* mutant of PartialSave: the received text is saved without the partial mark
PartialSaveUnmarked(h, j, full, saved) ==
    IF full # <<>> /\ saved
    THEN SaveMessage(h, [role |-> "assistant", job |-> j, partial |-> FALSE,
                         content |-> full])
    ELSE h

\* processor.py:156-175  the except branch: a partial-marked message is saved
\* when anything was received (saved = FALSE: that save is attempted and fails,
\* which is only logged), then re-raise
PartialSave(h, j, full, saved) ==
    IF full # <<>> /\ saved
    THEN SaveMessage(h, [role |-> "assistant", job |-> j, partial |-> TRUE,
                         content |-> full])
    ELSE h

\* mutant of JobFailedPc: the exception of the job leaves process_user_stream
JobFailedPcAbort == "idle"

\* consumer.py:91-96  where process_user_stream continues after the job raised
JobFailedPc == "ack2"

\* process_user_stream after process_single_message returned or raised: the
\* locals of process_chat_job_direct are gone, the entry read is kept
JobReturned(t, pc) == [IdleTask EXCEPT !.pc = pc, !.cur = t.cur]

\* consumer.py:144-154  a record lacks a required field: such a record is
\* written as 0 in the log, a complete record as its job id
MissingFields(record) == record = 0

\* consumer.py:82  if not messages: break
BreakOnRead(messages) == messages = <<>>

\* mutant of ReadStream: two entries are read and only the newer is processed
ReadStreamLast(u) ==
    /\ task[u].pc = "read"
    /\ LET messages == ReadNext(u, 2) IN
       /\ delivered' = [delivered EXCEPT ![u] = @ + Len(messages)]
       /\ IF messages = <<>>
          THEN /\ task' = [task EXCEPT ![u] = IdleTask]
               /\ ntasks' = [ntasks EXCEPT ![u] = @ - 1]
               /\ UNCHANGED invoked
          ELSE /\ task' = [task EXCEPT ![u] =
                              [IdleTask EXCEPT !.pc = "agent",
                                               !.cur = messages[Len(messages)]]]
               /\ invoked' = invoked \cup {log[u][messages[Len(messages)]]}
               /\ UNCHANGED ntasks
    /\ UNCHANGED <<poll, log, acked, relayVars, history, nextJob, loopVars, ackLost,
                   faults,
                   sub, failed, enq, scan>>

\* consumer.py:78-89, 127-175, processor.py:53-93  one read of at most ReadCount
\* entries.  An empty read ends the coroutine.  Otherwise process_single_message
\* is called on the entry read: it validates the record and calls
\* process_chat_job_direct, which loads the history and starts the agent call
\* (no suspension point lies between the read's return and that call).
ReadStream(u) ==
    /\ task[u].pc = "read"
    /\ LET messages == ReadNext(u, ReadCount) IN
       /\ IF BreakOnRead(messages) THEN TRUE
          ELSE ~MissingFields(log[u][messages[1]])
       /\ delivered' = [delivered EXCEPT ![u] = @ + Len(messages)]
       /\ IF BreakOnRead(messages)
          THEN /\ task' = [task EXCEPT ![u] = IdleTask]
               /\ ntasks' = [ntasks EXCEPT ![u] = @ - 1]
               /\ UNCHANGED invoked
          ELSE /\ task' = [task EXCEPT ![u] =
                              [IdleTask EXCEPT !.pc = "agent", !.cur = messages[1]]]
               /\ invoked' = invoked \cup {log[u][messages[1]]}
               /\ UNCHANGED ntasks
    /\ UNCHANGED <<poll, log, acked, relayVars, history, nextJob, loopVars, ackLost,
                   faults,
                   sub, failed, enq, scan>>

\* consumer.py:80, 102-104  the read raises (any call, any number of times):
\* the error is logged and the coroutine sleeps before it reads again
ReadStreamRaise(u) ==
    /\ task[u].pc = "read"
    /\ task' = [task EXCEPT ![u].pc = "sleep"]
    /\ UNCHANGED <<poll, storeVars, relayVars, history, nextJob, loopVars, ntasks,
                   invoked, ackLost, faults, sub, failed, enq, scan>>

\* a producer appends a record that lacks a required field to the stream of u
AppendMalformed(u) ==
    /\ Cardinality({<<v, i>> \in Users \X (1..(MaxJobs + MaxMalformed)) :
                       i <= Len(log[v]) /\ MissingFields(log[v][i])}) < MaxMalformed
    /\ log' = [log EXCEPT ![u] = XAdd(@, 0)]
    /\ UNCHANGED <<poll, delivered, acked, relayVars, history, nextJob, loopVars, task,
                   ntasks, invoked, ackLost, faults, sub, failed, enq, scan>>

\* mutant of ReadStreamMalformed: the ValueError ends the coroutine
ReadStreamMalformedAbort(u) ==
    /\ task[u].pc = "read"
    /\ LET messages == ReadNext(u, ReadCount) IN
       /\ ~BreakOnRead(messages)
       /\ MissingFields(log[u][messages[1]])
       /\ delivered' = [delivered EXCEPT ![u] = @ + Len(messages)]
    /\ task' = [task EXCEPT ![u] = IdleTask]
    /\ ntasks' = [ntasks EXCEPT ![u] = @ - 1]
    /\ UNCHANGED <<poll, log, acked, relayVars, history, nextJob, loopVars, invoked,
                   ackLost, faults, sub, failed, enq, scan>>

\* consumer.py:80-93, 144-156, 177-183  the entry read lacks a required field:
\* process_single_message raises ValueError before it calls
\* process_chat_job_direct, and process_user_stream enters its except branch
ReadStreamMalformed(u) ==
    /\ task[u].pc = "read"
    /\ LET messages == ReadNext(u, ReadCount) IN
       /\ ~BreakOnRead(messages)
       /\ MissingFields(log[u][messages[1]])
       /\ delivered' = [delivered EXCEPT ![u] = @ + Len(messages)]
       /\ task' = [task EXCEPT ![u] =
                      [IdleTask EXCEPT !.pc = JobFailedPc, !.cur = messages[1]]]
    /\ UNCHANGED <<poll, log, acked, relayVars, history, nextJob, loopVars, ntasks,
                   invoked, ackLost, faults, sub, failed, enq, scan>>

\* processor.py:69, 156-175  as ReadStream, but get_conversation_history raises:
\* the job fails before anything was received
ReadStreamJobFail(u) ==
    /\ task[u].pc = "read"
    /\ MayFail
    /\ LET messages == ReadNext(u, ReadCount) IN
       /\ ~BreakOnRead(messages)
       /\ ~MissingFields(log[u][messages[1]])
       /\ delivered' = [delivered EXCEPT ![u] = @ + Len(messages)]
       /\ task' = [task EXCEPT ![u] =
                      [IdleTask EXCEPT !.pc = JobFailedPc, !.cur = messages[1]]]
       /\ invoked' = invoked \cup {log[u][messages[1]]}
       /\ failed' = failed \cup {log[u][messages[1]]}
    /\ faults' = faults + 1
    /\ UNCHANGED <<poll, log, acked, relayVars, history, nextJob, loopVars, ntasks,
                   ackLost, sub, enq, scan>>

\* mutant of ReadStreamFail: the exception cancels every task of the cycle
ReadStreamFailCancels(u) ==
    /\ task[u].pc = "read"
    /\ MayFail
    /\ faults' = faults + 1
    /\ task' = [v \in Users |-> IdleTask]
    /\ ntasks' = [v \in Users |-> 0]
    /\ UNCHANGED <<poll, storeVars, relayVars, history, nextJob, loopVars, invoked,
                   ackLost, sub, failed, enq, scan>>

\* consumer.py:102-104  the read raises: log it, await asyncio.sleep(1)
ReadStreamFail(u) ==
    /\ task[u].pc = "read"
    /\ MayFail
    /\ faults' = faults + 1
    /\ task' = [task EXCEPT ![u].pc = "sleep"]
    /\ UNCHANGED <<poll, storeVars, relayVars, history, nextJob, loopVars, ntasks,
                   invoked, ackLost,
                   sub, failed, enq, scan>>

\* mutant of TaskSleep: the coroutine does not read again after the sleep
TaskSleepNoRetry(u) ==
    /\ task[u].pc = "sleep"
    /\ task' = [task EXCEPT ![u].pc = "hung"]
    /\ UNCHANGED <<poll, storeVars, relayVars, history, nextJob, loopVars, ntasks,
                   invoked, ackLost, faults, sub, failed, enq, scan>>

\* consumer.py:104 -> 78  the sleep ends and the loop reads again
TaskSleep(u) ==
    /\ task[u].pc = "sleep"
    /\ task' = [task EXCEPT ![u].pc = "read"]
    /\ UNCHANGED <<poll, storeVars, relayVars, history, nextJob, loopVars, ntasks,
                   invoked, ackLost, faults,
                   sub, failed, enq, scan>>

\* ---------------------------------------------- process_chat_job_direct
\* mutant of ChunkIndexAfterSave: the index is not advanced
ChunkIndexKept(i) == i

\* processor.py:103  chunk_index += 1
ChunkIndexAfterSave(i) == i + 1

\* mutant of SaveJobChunk: the chunk is put at the head of the list
SaveJobChunkPrepend(l, index, content) ==
    <<[index |-> index, content |-> content]>> \o l

\* queue/utils.py:17-45  save_job_chunk: rpush of {index, content, timestamp}
SaveJobChunk(l, index, content) == Append(l, [index |-> index, content |-> content])

\* processor.py:93-103  the agent yields a fragment; it is appended to
\* full_response and saved as the chunk with the current index
AgentYield(u, tok) ==
    /\ task[u].pc = "agent"
    /\ task[u].chunk_index < MaxChunks
    /\ tok = AgentFragment(task[u].chunk_index)
    /\ chunks' = [chunks EXCEPT ![JobOf(u)] = SaveJobChunk(@, task[u].chunk_index, tok)]
    /\ task' = [task EXCEPT ![u].full_response = @ \o tok,
                            ![u].chunk_index = ChunkIndexAfterSave(@)]
    /\ UNCHANGED <<poll, storeVars, meta, history, nextJob, loopVars, ntasks, invoked,
                   ackLost, faults,
                   sub, failed, enq, scan>>

\* processor.py:97, queue/utils.py:40-45  save_job_chunk raises, at the rpush
\* (nothing written) or at the expire after it (chunk written); the job fails
AgentYieldFail(u, tok, written, saved) ==
    /\ task[u].pc = "agent"
    /\ task[u].chunk_index < MaxChunks
    /\ tok = AgentFragment(task[u].chunk_index)
    /\ FailuresLeft(IF saved THEN 1 ELSE 2)
    /\ faults' = faults + (IF saved THEN 1 ELSE 2)
    /\ chunks' = IF written
                 THEN [chunks EXCEPT ![JobOf(u)] =
                          SaveJobChunk(@, task[u].chunk_index, tok)]
                 ELSE chunks
    /\ history' = [history EXCEPT ![u] =
                      PartialSave(@, JobOf(u), task[u].full_response \o tok, saved)]
    /\ task' = [task EXCEPT ![u] = JobReturned(task[u], JobFailedPc)]
    /\ failed' = failed \cup {JobOf(u)}
    /\ UNCHANGED <<poll, storeVars, meta, nextJob, loopVars, ntasks, invoked, ackLost,
                   sub, enq, scan>>

\* processor.py:93  the agent call never yields its next fragment: the
\* invocation stays suspended in its async-for, which nothing else ends (no
\* wait_for or timeout surrounds the call in processor.py or consumer.py:86-100)
AgentHang(u) ==
    /\ task[u].pc = "agent"
    /\ task' = [task EXCEPT ![u].pc = "hung"]
    /\ UNCHANGED <<poll, storeVars, relayVars, history, nextJob, loopVars, ntasks,
                   invoked, ackLost, faults, sub, failed, enq, scan>>

\* queue/utils.py:101-123  set_job_metadata
SetJobMetadata(m, j, md) == [k \in (DOMAIN m) \cup {j} |-> IF k = j THEN md ELSE m[k]]

\* mutant of AgentRaise: the failing job leaves a metadata record
AgentRaiseWithMetadata(u, saved) ==
    /\ task[u].pc = "agent"
    /\ saved \/ task[u].full_response # <<>>
    /\ FailuresLeft(IF saved THEN 0 ELSE 1)
    /\ faults' = faults + (IF saved THEN 0 ELSE 1)
    /\ history' = [history EXCEPT ![u] =
                      PartialSave(@, JobOf(u), task[u].full_response, saved)]
    /\ meta' = SetJobMetadata(meta, JobOf(u),
                   [total_chunks |-> task[u].chunk_index,
                    db_message_id |-> <<JobOf(u), "assistant", TRUE>>])
    /\ task' = [task EXCEPT ![u] = JobReturned(task[u], JobFailedPc)]
    /\ failed' = failed \cup {JobOf(u)}
    /\ UNCHANGED <<poll, storeVars, chunks, nextJob, loopVars, ntasks, invoked,
                   ackLost, sub, enq, scan>>

\* processor.py:93, 156-175  the agent call raises while the next fragment is
\* awaited
AgentRaise(u, saved) ==
    /\ task[u].pc = "agent"
    /\ saved \/ task[u].full_response # <<>>
    /\ FailuresLeft(IF saved THEN 0 ELSE 1)
    /\ faults' = faults + (IF saved THEN 0 ELSE 1)
    /\ history' = [history EXCEPT ![u] =
                      PartialSave(@, JobOf(u), task[u].full_response, saved)]
    /\ task' = [task EXCEPT ![u] = JobReturned(task[u], JobFailedPc)]
    /\ failed' = failed \cup {JobOf(u)}
    /\ UNCHANGED <<poll, storeVars, relayVars, nextJob, loopVars, ntasks, invoked,
                   ackLost, sub, enq, scan>>

\* mutant of Complete: the metadata is written while fragments still arrive
CompleteKeepStreaming(u) ==
    /\ task[u].pc = "agent"
    /\ JobOf(u) \notin DOMAIN meta
    /\ meta' = SetJobMetadata(meta, JobOf(u),
                   [total_chunks |-> task[u].chunk_index,
                    db_message_id |-> <<JobOf(u), "assistant", FALSE>>])
    /\ UNCHANGED <<poll, storeVars, chunks, history, nextJob, loopVars, task, ntasks,
                   invoked, ackLost, faults,
                   sub, failed, enq, scan>>

\* mutant of Complete: the metadata record is written without the assistant
\* message having been saved
CompleteUnsaved(u) ==
    /\ task[u].pc = "agent"
    /\ meta' = SetJobMetadata(meta, JobOf(u),
                   [total_chunks |-> task[u].chunk_index,
                    db_message_id |-> <<JobOf(u), "assistant", FALSE>>])
    /\ task' = [task EXCEPT ![u] = JobReturned(task[u], "ack")]
    /\ UNCHANGED <<poll, storeVars, chunks, history, nextJob, loopVars, ntasks, invoked,
                   ackLost, faults, sub, failed, enq, scan>>

\* processor.py:105-154  the agent is exhausted: the full response is saved to
\* the history and the metadata record is written
Complete(u) ==
    /\ task[u].pc = "agent"
    /\ history' = [history EXCEPT ![u] =
                      SaveMessage(@, [role |-> "assistant", job |-> JobOf(u),
                                      partial |-> FALSE,
                                      content |-> task[u].full_response])]
    /\ meta' = SetJobMetadata(meta, JobOf(u),
                   [total_chunks |-> task[u].chunk_index,
                    db_message_id |-> <<JobOf(u), "assistant", FALSE>>])
    /\ task' = [task EXCEPT ![u] = JobReturned(task[u], "ack")]
    /\ UNCHANGED <<poll, storeVars, chunks, nextJob, loopVars, ntasks, invoked, ackLost,
                   faults,
                   sub, failed, enq, scan>>

\* mutant of CompleteFail: the metadata is written before the invocation raises
CompleteFailMetaWritten(u, fullSaved, saved) ==
    /\ task[u].pc = "agent"
    /\ saved \/ task[u].full_response # <<>>
    /\ FailuresLeft(IF saved THEN 1 ELSE 2)
    /\ faults' = faults + (IF saved THEN 1 ELSE 2)
    /\ meta' = SetJobMetadata(meta, JobOf(u),
                   [total_chunks |-> task[u].chunk_index,
                    db_message_id |-> <<JobOf(u), "assistant", FALSE>>])
    /\ history' = [history EXCEPT ![u] =
                      PartialSave(@, JobOf(u), task[u].full_response, saved)]
    /\ task' = [task EXCEPT ![u] = JobReturned(task[u], JobFailedPc)]
    /\ failed' = failed \cup {JobOf(u)}
    /\ UNCHANGED <<poll, storeVars, chunks, nextJob, loopVars, ntasks, invoked,
                   ackLost, sub, enq, scan>>

\* processor.py:121, 132  save_message raises (fullSaved = FALSE) or
\* set_job_metadata raises, its SET not applied, after the message was saved
\* (fullSaved = TRUE)
CompleteFail(u, fullSaved, saved) ==
    /\ task[u].pc = "agent"
    /\ saved \/ task[u].full_response # <<>>
    /\ FailuresLeft(IF saved THEN 1 ELSE 2)
    /\ faults' = faults + (IF saved THEN 1 ELSE 2)
    /\ LET h1 == IF fullSaved
                 THEN SaveMessage(history[u],
                                  [role |-> "assistant", job |-> JobOf(u),
                                   partial |-> FALSE,
                                   content |-> task[u].full_response])
                 ELSE history[u]
       IN history' = [history EXCEPT ![u] =
                         PartialSave(h1, JobOf(u), task[u].full_response, saved)]
    /\ task' = [task EXCEPT ![u] = JobReturned(task[u], JobFailedPc)]
    /\ failed' = failed \cup {JobOf(u)}
    /\ UNCHANGED <<poll, storeVars, relayVars, nextJob, loopVars, ntasks, invoked,
                   ackLost, sub, enq, scan>>

\* ------------------------------------- acknowledgment (consumer.py:90-100)
\* mutant of AckMessage: the entry id is acknowledged in every stream
AckMessageEveryStream(u) ==
    /\ task[u].pc = "ack"
    /\ acked' = [v \in Users |->
                    IF task[u].cur <= delivered[v]
                    THEN Acknowledge(acked[v], task[u].cur) ELSE acked[v]]
    /\ ackLost' = [ackLost EXCEPT ![u] = @ \ {task[u].cur}]
    /\ task' = [task EXCEPT ![u].pc = "read"]
    /\ UNCHANGED <<poll, log, delivered, relayVars, history, nextJob, loopVars, ntasks,
                   invoked, faults, sub, failed, enq, scan>>

\* consumer.py:90  acknowledge after process_single_message returned
AckMessage(u) ==
    /\ task[u].pc = "ack"
    /\ acked' = [acked EXCEPT ![u] = Acknowledge(@, task[u].cur)]
    /\ ackLost' = [ackLost EXCEPT ![u] = @ \ {task[u].cur}]
    /\ task' = [task EXCEPT ![u].pc = "read"]
    /\ UNCHANGED <<poll, log, delivered, relayVars, history, nextJob, loopVars, ntasks,
                   invoked, faults,
                   sub, failed, enq, scan>>

\* consumer.py:90-91  that acknowledge raises, before or after taking effect;
\* the except branch is entered
AckMessageFail(u, effect) ==
    /\ task[u].pc = "ack"
    /\ MayFail
    /\ faults' = faults + 1
    /\ acked' = IF effect THEN [acked EXCEPT ![u] = Acknowledge(@, task[u].cur)]
                ELSE acked
    /\ task' = [task EXCEPT ![u].pc = JobFailedPc]
    /\ UNCHANGED <<poll, log, delivered, relayVars, history, nextJob, loopVars, ntasks,
                   invoked, ackLost,
                   sub, failed, enq, scan>>

\* mutant of AckFailedMessage: a failed job's entry is not acknowledged
AckFailedMessageNoAck(u) ==
    /\ task[u].pc = "ack2"
    /\ task' = [task EXCEPT ![u].pc = "read"]
    /\ UNCHANGED <<poll, storeVars, relayVars, history, nextJob, loopVars, ntasks,
                   invoked, ackLost, faults,
                   sub, failed, enq, scan>>

\* consumer.py:96-98  acknowledge in the except branch, then the next read
AckFailedMessage(u) ==
    /\ task[u].pc = "ack2"
    /\ acked' = [acked EXCEPT ![u] = Acknowledge(@, task[u].cur)]
    /\ task' = [task EXCEPT ![u].pc = "read"]
    /\ UNCHANGED <<poll, log, delivered, relayVars, history, nextJob, loopVars, ntasks,
                   invoked, ackLost, faults,
                   sub, failed, enq, scan>>

\* consumer.py:99-100  that acknowledge raises too: logged, the loop goes on
AckFailedMessageFail(u, effect) ==
    /\ task[u].pc = "ack2"
    /\ MayFail
    /\ faults' = faults + 1
    /\ acked' = IF effect THEN [acked EXCEPT ![u] = Acknowledge(@, task[u].cur)]
                ELSE acked
    /\ ackLost' = IF effect \/ task[u].cur \in acked[u] THEN ackLost
                  ELSE [ackLost EXCEPT ![u] = @ \cup {task[u].cur}]
    /\ task' = [task EXCEPT ![u].pc = "read"]
    /\ UNCHANGED <<poll, log, delivered, relayVars, history, nextJob, loopVars, ntasks,
                   invoked,
                   sub, failed, enq, scan>>

\* ------------------------------------------------ get_conversation_history
\* config.py:28-29  history_limit_private / history_limit_group, scaled down
HistoryLimit == 1

\* routes/chat.py:238-249  the row that enqueue_chat saves for job j
UserMessage(j) == [role |-> "user", job |-> j, partial |-> FALSE, content |-> <<>>]

\* the rows of conversation u that are newer than the user message of job j
\* whatever the timing: the user messages of the requests made after it
NewerUserMessages(u, j) == {row \in history[u] : row.role = "user" /\ row.job > j}

\* database.py:245-253  get_conversation_history returns the limit most recent
\* rows: the user message of job j is among them only if it is stored and
\* fewer than limit rows are newer
OwnMessageLoaded(u, j) ==
    /\ UserMessage(j) \in history[u]
    /\ Cardinality(NewerUserMessages(u, j)) < HistoryLimit

\* ------------------------------------------------------------ key expiry
\* the job whose invocation is running in some coroutine
Running(j) == \E u \in Users : task[u].pc = "agent" /\ JobOf(u) = j

\* queue/utils.py:43-45  the TTL of job:chunks:<j>, set anew at every chunk
\* write, runs out after the job's invocation ended: the list is gone
ExpireChunks(j) ==
    /\ chunks[j] # <<>>
    /\ ~Running(j)
    /\ chunks' = [chunks EXCEPT ![j] = <<>>]
    /\ UNCHANGED <<poll, storeVars, meta, history, nextJob, loopVars, task, ntasks,
                   invoked, ackLost, faults, sub, failed, enq, scan>>

\* queue/utils.py:119-123  the TTL of job:meta:<j> (ex=...) runs out: the
\* record is gone
ExpireMetadata(j) ==
    /\ j \in DOMAIN meta
    /\ meta' = [k \in (DOMAIN meta) \ {j} |-> meta[k]]
    /\ UNCHANGED <<poll, storeVars, chunks, history, nextJob, loopVars, task, ntasks,
                   invoked, ackLost, faults, sub, failed, enq, scan>>

\* ------------------------------------------------------ get_job_status
\* queue/utils.py:48-79  get_job_chunks: lrange(chunk_key, start_index, -1)
GetJobChunks(j, start_index) == SubSeq(chunks[j], start_index + 1, Len(chunks[j]))

\* queue/utils.py:126-150  get_job_metadata: None (<<>>) when the key is absent
GetJobMetadata(j) == IF j \in DOMAIN meta THEN <<meta[j]>> ELSE <<>>

\* routes/chat.py:400  "".join(chunk["content"] for chunk in chunks)
RECURSIVE JoinContent(_)
JoinContent(cs) == IF cs = <<>> THEN <<>> ELSE Head(cs).content \o JoinContent(Tail(cs))

\* routes/chat.py:49-52  the status when the metadata read settles it
StatusFromMetadata(metadata) == IF metadata # <<>> THEN "complete" ELSE ""

\* mutant of StatusFromChunks: the two outcomes are swapped
StatusFromChunksSwapped(cs) == IF cs # <<>> THEN "queued" ELSE "in_progress"

\* routes/chat.py:54-60  the status from the chunk read
StatusFromChunks(cs) == IF cs # <<>> THEN "in_progress" ELSE "queued"

\* routes/chat.py:383, 49-52  a request for job j arrives; get_stream_job_status
\* reads the metadata
GetStatusMetadata(j) ==
    /\ poll.pc = "idle"
    /\ LET st == StatusFromMetadata(GetJobMetadata(j)) IN
       poll' = [IdlePoll EXCEPT !.job = j, !.status = st,
                                !.pc = IF st = "" THEN "status" ELSE "chunks"]
    /\ UNCHANGED <<storeVars, relayVars, history, nextJob, loopVars, task, ntasks,
                   invoked, ackLost, faults,
                   sub, failed, enq, scan>>

\* routes/chat.py:54-60  no metadata: get_stream_job_status reads the chunks
GetStatusChunks ==
    /\ poll.pc = "status"
    /\ poll' = [poll EXCEPT !.status = StatusFromChunks(GetJobChunks(poll.job, 0)),
                            !.pc = "chunks"]
    /\ UNCHANGED <<storeVars, relayVars, history, nextJob, loopVars, task, ntasks,
                   invoked, ackLost, faults,
                   sub, failed, enq, scan>>

\* routes/chat.py:399-400  full_response is set when complete and chunks
FullResponse(status, cs) ==
    IF status = "complete" /\ cs # <<>> THEN <<JoinContent(cs)>> ELSE <<>>

\* routes/chat.py:385-402  get_job_status reads the chunks and builds the response
GetJobStatusRespond ==
    /\ poll.pc = "chunks"
    /\ LET cs == GetJobChunks(poll.job, 0) IN
       poll' = [poll EXCEPT !.pc = "done", !.chunks = cs, !.total_chunks = Len(cs),
                            !.complete = (poll.status = "complete"),
                            !.full_response = FullResponse(poll.status, cs)]
    /\ UNCHANGED <<storeVars, relayVars, history, nextJob, loopVars, task, ntasks,
                   invoked, ackLost, faults,
                   sub, failed, enq, scan>>

\* routes/chat.py:402  return response: the request is over
GetJobStatusReturn ==
    /\ poll.pc = "done"
    /\ poll' = IdlePoll
    /\ UNCHANGED <<storeVars, relayVars, history, nextJob, loopVars, task, ntasks,
                   invoked, ackLost, faults,
                   sub, failed, enq, scan>>

\* ------------------------------------------- stream_job_chunks.generate
\* main.py:857, 863, 873  the events of the response: a chunk, or a sentinel
ChunkEvent(c) == [type |-> "chunk", index |-> c.index, content |-> c.content]
Done == [type |-> "[DONE]", index |-> -1, content |-> <<>>]
Error == [type |-> "[ERROR]", index |-> -1, content |-> <<>>]

\* main.py:855-858  the for loop over the chunks read: a chunk whose index is
\* beyond last_index is yielded and becomes last_index
RECURSIVE YieldNewChunks(_, _)
YieldNewChunks(s, cs) ==
    IF cs = <<>> THEN s
    ELSE IF Head(cs).index > s.last_index
         THEN YieldNewChunks([s EXCEPT !.sent = Append(@, ChunkEvent(Head(cs))),
                                       !.last_index = Head(cs).index],
                             Tail(cs))
         ELSE YieldNewChunks(s, Tail(cs))

\* main.py:844-848  a client connects for job j
StreamOpen(j) ==
    /\ sub.pc = "idle"
    /\ sub' = [IdleSub EXCEPT !.pc = "chunks", !.job = j]
    /\ UNCHANGED <<storeVars, relayVars, history, nextJob, loopVars, task, ntasks,
                   invoked, ackLost, faults, poll, failed, enq, scan>>

\* mutant of StreamReadChunks: every round reads the list from its start and
\* yields all of it
StreamReadChunksReplay ==
    /\ sub.pc = "chunks"
    /\ LET cs == GetJobChunks(sub.job, 0) IN
       sub' = [sub EXCEPT !.sent = @ \o [i \in 1..Len(cs) |-> ChunkEvent(cs[i])],
                          !.last_index = Len(cs) - 1,
                          !.pc = "meta"]
    /\ UNCHANGED <<storeVars, relayVars, history, nextJob, loopVars, task, ntasks,
                   invoked, ackLost, faults, poll, failed, enq, scan>>

\* main.py:852-858  the chunks from last_index + 1 on are read and yielded
StreamReadChunks ==
    /\ sub.pc = "chunks"
    /\ sub' = [YieldNewChunks(sub, GetJobChunks(sub.job, sub.last_index + 1))
                  EXCEPT !.pc = "meta"]
    /\ UNCHANGED <<storeVars, relayVars, history, nextJob, loopVars, task, ntasks,
                   invoked, ackLost, faults, poll, failed, enq, scan>>

\* main.py:861-867  the metadata is read: [DONE] and the end of the stream when
\* it exists, else the poll interval and the next round
StreamReadMetadata ==
    /\ sub.pc = "meta"
    /\ sub' = IF GetJobMetadata(sub.job) # <<>>
              THEN [sub EXCEPT !.sent = Append(@, Done), !.pc = "closed"]
              ELSE [sub EXCEPT !.pc = "chunks"]
    /\ UNCHANGED <<storeVars, relayVars, history, nextJob, loopVars, task, ntasks,
                   invoked, ackLost, faults, poll, failed, enq, scan>>

\* main.py:871-873  a relay read raises: [ERROR] and the end of the stream
StreamFail ==
    /\ sub.pc \in {"chunks", "meta"}
    /\ MayFail
    /\ faults' = faults + 1
    /\ sub' = [sub EXCEPT !.sent = Append(@, Error), !.pc = "closed"]
    /\ UNCHANGED <<storeVars, relayVars, history, nextJob, loopVars, task, ntasks,
                   invoked, ackLost, poll, failed, enq, scan>>

\* main.py:875  the response has ended; the next client may connect
StreamClose ==
    /\ sub.pc = "closed"
    /\ sub' = IdleSub
    /\ UNCHANGED <<storeVars, relayVars, history, nextJob, loopVars, task, ntasks,
                   invoked, ackLost, faults, poll, failed, enq, scan>>

\* --------------------------------------------------------- specification
Next ==
    \/ \E u \in Users : EnqueueChat(u)
    \/ \E u \in Users : EnqueueChatFail(u)
    \/ DiscoverScan
    \/ DiscoverScanFail
    \/ \E u \in Users : DiscoverKey(u)
    \/ \E u \in Users : DiscoverKeyFail(u)
    \/ Dispatch
    \/ GatherReturn
    \/ CycleSleep
    \/ \E u \in Users : ReadStream(u)
    \/ \E u \in Users : ReadStreamFail(u)
    \/ \E u \in Users : TaskSleep(u)
    \/ \E u \in Users : ReadStreamJobFail(u)
    \/ \E u \in Users, tok \in Tokens : AgentYield(u, tok)
    \/ \E u \in Users, tok \in Tokens, written, saved \in BOOLEAN :
          AgentYieldFail(u, tok, written, saved)
    \/ \E u \in Users, saved \in BOOLEAN : AgentRaise(u, saved)
    \/ \E u \in Users : Complete(u)
    \/ \E u \in Users, fullSaved, saved \in BOOLEAN : CompleteFail(u, fullSaved, saved)
    \/ \E u \in Users : AckMessage(u)
    \/ \E u \in Users, effect \in BOOLEAN : AckMessageFail(u, effect)
    \/ \E u \in Users : AckFailedMessage(u)
    \/ \E u \in Users, effect \in BOOLEAN : AckFailedMessageFail(u, effect)

Spec == Init /\ [][Next]_vars

\* The relay as the HTTP layer sees it: the worker, whose jobs may fail by an
\* agent error or a history-store error, and status requests for any job id at
\* any moment.  A response that has been
\* built is returned before the worker takes its next step (what the worker
\* does after the last relay read of a request cannot change the response).
ConsumerNext ==
    \/ DiscoverScan
    \/ \E u \in Users : DiscoverKey(u)
    \/ Dispatch
    \/ GatherReturn
    \/ CycleSleep

\* the steps process_user_stream(u) takes when nothing raises
TaskNext(u) ==
    \/ ReadStream(u)
    \/ \E tok \in Tokens : AgentYield(u, tok)
    \/ Complete(u)
    \/ AckMessage(u)
    \/ AckFailedMessage(u)

WorkerNext ==
    \/ \E u \in Users : EnqueueChat(u)
    \/ ConsumerNext
    \/ \E u \in Users : TaskNext(u)
    \/ \E u \in Users : AgentRaise(u, TRUE)

NextPoll ==
    \/ poll.pc # "done" /\ WorkerNext
    \/ poll.pc # "done" /\ \E u \in Users : ReadStreamJobFail(u)
    \/ \E j \in Jobs : GetStatusMetadata(j)
    \/ GetStatusChunks
    \/ GetJobStatusRespond
    \/ GetJobStatusReturn

SpecPoll == Init /\ [][NextPoll]_vars

\* The relay as a streaming client sees it: the worker with an available store
\* and a subscription to any job id opened at any moment.  An ended stream is
\* closed before the worker takes its next step.  The worker's coroutines and
\* the generator are scheduled by their event loops whenever they can run.
StreamNext ==
    \/ StreamReadChunks
    \/ StreamReadMetadata

NextStream ==
    \/ sub.pc # "closed" /\ WorkerNext
    \/ \E j \in Jobs : StreamOpen(j)
    \/ StreamNext
    \/ StreamFail
    \/ StreamClose

SpecStream ==
    /\ Init
    /\ [][NextStream]_vars
    /\ WF_vars(sub.pc # "closed" /\ ConsumerNext)
    /\ \A u \in Users : WF_vars(sub.pc # "closed" /\ TaskNext(u))
    /\ WF_vars(StreamNext)

\* The worker over a store whose scan is paged and whose scan and read calls
\* of the discovery may raise at any call, any number of times; the event loop
\* runs the consumer loop and every coroutine that can take a step.
ScanConsumerNext ==
    \/ DiscoverScanBatch
    \/ DiscoverScanBatchFail
    \/ \E u \in Users : DiscoverKey(u)
    \/ \E u \in Users : DiscoverKeyBatchFail(u)
    \/ DiscoverNextBatch
    \/ Dispatch
    \/ GatherReturn
    \/ CycleSleep

NextScan ==
    \/ \E u \in Users : EnqueueChat(u)
    \/ ScanConsumerNext
    \/ \E u \in Users : TaskNext(u)
    \/ \E u \in Users : AgentRaise(u, TRUE)

SpecScan ==
    /\ Init
    /\ [][NextScan]_vars
    /\ WF_vars(ScanConsumerNext)
    /\ \A u \in Users : WF_vars(TaskNext(u))

\* The worker over a log whose read call may raise at any call, any number
\* of times; the event loop runs the consumer loop and every coroutine that
\* can take a step.
ReadTaskNext(u) ==
    \/ TaskNext(u)
    \/ ReadStreamRaise(u)
    \/ TaskSleep(u)

NextRead ==
    \/ \E u \in Users : EnqueueChat(u)
    \/ ConsumerNext
    \/ \E u \in Users : ReadTaskNext(u)
    \/ \E u \in Users : AgentRaise(u, TRUE)

SpecRead ==
    /\ Init
    /\ [][NextRead]_vars
    /\ WF_vars(ConsumerNext)
    /\ \A u \in Users : WF_vars(ReadTaskNext(u))

\* The worker with an available store and agent calls that end, by returning
\* or by raising; the event loop runs the consumer loop and every coroutine
\* that can take a step.
SpecLive ==
    /\ Init
    /\ [][WorkerNext]_vars
    /\ WF_vars(ConsumerNext)
    /\ \A u \in Users : WF_vars(TaskNext(u))

\* The worker with an available store whose relay keys expire, each under its
\* own TTL.
NextTTL ==
    \/ WorkerNext
    \/ \E j \in Jobs : ExpireChunks(j)
    \/ \E j \in Jobs : ExpireMetadata(j)

SpecTTL == Init /\ [][NextTTL]_vars

\* The worker with an available store and a producer that appends records
\* lacking a required field; the event loop runs the consumer loop and every
\* coroutine that can take a step.
MalformedTaskNext(u) ==
    \/ TaskNext(u)
    \/ ReadStreamMalformed(u)

NextMalformed ==
    \/ \E u \in Users : EnqueueChat(u)
    \/ \E u \in Users : AppendMalformed(u)
    \/ ConsumerNext
    \/ \E u \in Users : MalformedTaskNext(u)

SpecMalformed ==
    /\ Init
    /\ [][NextMalformed]_vars
    /\ WF_vars(ConsumerNext)
    /\ \A u \in Users : WF_vars(MalformedTaskNext(u))

\* The worker with an available store, and enqueue requests with and without
\* a document that is not a PDF.
NextEnqueue ==
    \/ WorkerNext
    \/ \E u \in Users : EnqueueChatNonPdf(u)

SpecEnqueue == Init /\ [][NextEnqueue]_vars

\* The worker with agent calls that may get stuck; the event loop runs the
\* consumer loop and every coroutine that can take a step.
NextHang ==
    \/ WorkerNext
    \/ \E u \in Users : AgentHang(u)

SpecHang ==
    /\ Init
    /\ [][NextHang]_vars
    /\ WF_vars(ConsumerNext)
    /\ \A u \in Users : WF_vars(TaskNext(u))

\* ----------------------------------------------------------------- claims
Positions(u) == 1..Len(log[u])

\* C1 (as stated): in every state, if the job processor has been invoked on an
\* entry of a conversation, every earlier entry of that conversation is
\* acknowledged in the log, whatever the store calls did.
C1_AckedBeforeNext ==
    \A u \in Users : \A i, k \in Positions(u) :
        (i < k /\ log[u][k] \in invoked) => i \in acked[u]

\* C1 (amended): if the job processor has been invoked on an entry, then for
\* every earlier entry of the conversation the invocation has returned or
\* raised and its acknowledgment was issued: the entry is acknowledged unless
\* the acknowledge call for it failed.
C1_AckIssuedBeforeNext ==
    \A u \in Users : \A i, k \in Positions(u) :
        (i < k /\ log[u][k] \in invoked) =>
            /\ log[u][i] \in invoked
            /\ task[u].cur # i
            /\ i \in acked[u] \cup ackLost[u]

C1_Witness ==
    \E u \in Users : \E i, k \in Positions(u) :
        i < k /\ log[u][k] \in invoked /\ i \in acked[u] /\ task[u].cur = k

\* C2: at no time does a conversation have two process_user_stream coroutines
\* that have not returned, and a coroutine is started for a conversation only
\* when none is running for it.
C2_OneTaskPerConversation ==
    /\ [](\A u \in Users : ntasks[u] <= 1)
    /\ [][\A u \in Users : ntasks'[u] > ntasks[u] => ntasks[u] = 0]_vars

C2_Witness ==
    /\ loopPc = "gather"
    /\ \A u \in Users : ntasks[u] = 1 /\ task[u].pc = "agent"

\* C3: the job processor is invoked on the entries of a conversation in the
\* order of their submission: an entry is invoked only after all entries
\* appended before it.
C3_SubmissionOrder ==
    \A u \in Users : \A i, k \in Positions(u) :
        (i < k /\ log[u][k] \in invoked) => log[u][i] \in invoked

C3_Witness ==
    \E u \in Users : Len(log[u]) >= 2 /\ \A i \in Positions(u) : log[u][i] \in invoked

\* C4: the dispatch of a cycle whose inspection ran to its end starts a
\* coroutine for every conversation that had an entry when the cycle's scan
\* ran, and a job waiting for its first fragment can write its first chunk
\* while another conversation's job is still awaiting its agent call.
C4_NoChunks(u) == task[u].pc = "agent" /\ task[u].chunk_index = 0

C4_ParallelInCycle ==
    /\ [][(loopPc = "inspect" /\ loopPc' \in {"gather", "sleep"}) =>
             \A u \in keys : ntasks'[u] = 1 /\ task'[u].pc = "read"]_vars
    /\ [](\A u1, u2 \in Users :
             (u1 # u2 /\ task[u1].pc = "agent" /\ C4_NoChunks(u2)) =>
                 ENABLED AgentYield(u2, AgentFragment(0)))

InProgress(j) == chunks[j] # <<>> /\ j \notin DOMAIN meta

C4_Witness ==
    /\ \A u \in Users : task[u].pc = "agent" /\ Len(log[u]) = 1
                        /\ InProgress(log[u][1])

\* C5 (as stated): a conversation with an undelivered job and no coroutine
\* never has to wait for another conversation's job: the consumer loop is never
\* held in its gather by another conversation's awaited agent call.
Undelivered(u) == {i \in Positions(u) : i > delivered[u]}

C5_NotSerialized ==
    \A u1, u2 \in Users :
        (u1 # u2 /\ task[u1].pc = "agent" /\ Undelivered(u2) # {} /\ ntasks[u2] = 0)
            => loopPc # "gather"

\* C6: when the job processor raises for an entry, the sequential processor
\* goes to the acknowledge call of its except branch, and from there always on
\* to the next read, having acknowledged the entry unless that call itself
\* failed.
C6_FailedJobAcknowledged ==
    [][\A u \in Users :
          /\ (task[u].pc = "agent" /\ task'[u].pc # "agent"
                  /\ JobOf(u) \notin DOMAIN meta')
                => (task'[u].pc = "ack2" /\ task'[u].cur = task[u].cur)
          /\ (task[u].pc = "ack2" /\ task'[u] # task[u])
                => /\ task'[u].pc = "read"
                   /\ (task[u].cur \in acked'[u] \/ faults' > faults)]_vars

C6_Witness ==
    \E u \in Users : \E i, k \in Positions(u) :
        /\ i < k
        /\ log[u][i] \notin DOMAIN meta
        /\ i \in acked[u]
        /\ log[u][k] \in invoked

\* C7: each step of the status inference yields what the priority rule gives
\* on the relay contents it reads: complete when the metadata exists; else,
\* from the chunk list, in_progress when it is non-empty and queued when empty.
C7_StatusRule ==
    [][/\ (poll.pc = "idle" /\ poll' # poll) =>
             IF poll'.job \in DOMAIN meta
             THEN poll'.status = "complete" /\ poll'.pc = "chunks"
             ELSE poll'.pc = "status"
       /\ (poll.pc = "status" /\ poll' # poll) =>
             /\ poll'.pc = "chunks"
             /\ poll'.status =
                   IF Len(chunks[poll.job]) >= 1 THEN "in_progress" ELSE "queued"
       /\ (poll.pc = "chunks" /\ poll' # poll) =>
             /\ poll'.status = poll.status
             /\ poll'.status \in {"complete", "in_progress", "queued"}]_vars

C7_Witness ==
    /\ poll.pc = "done"
    /\ poll.status = "in_progress"
    /\ poll.job \notin DOMAIN meta

\* C8 (as stated): a response with status complete carries full_response equal
\* to the concatenation of all chunks of the job, and a response with another
\* status carries no full_response.
C8_FullResponse ==
    poll.pc = "done" =>
        IF poll.status = "complete"
        THEN poll.full_response = <<JoinContent(chunks[poll.job])>>
        ELSE poll.full_response = <<>>

\* C9: the chunk at list position i of every job has index i (from 0), so the
\* indices are 0..N-1 without gap or duplicate, and listing from index k
\* returns exactly the chunks with index >= k.
RECURSIVE ChunksFrom(_, _)
ChunksFrom(cs, k) ==
    IF cs = <<>> THEN <<>>
    ELSE IF Head(cs).index >= k THEN <<Head(cs)>> \o ChunksFrom(Tail(cs), k)
         ELSE ChunksFrom(Tail(cs), k)

C9_ContiguousIndices ==
    \A j \in Jobs :
        /\ \A i \in 1..Len(chunks[j]) : chunks[j][i].index = i - 1
        /\ \A k \in 0..(MaxChunks + 1) : GetJobChunks(j, k) = ChunksFrom(chunks[j], k)

C9_Witness ==
    \E j \in Jobs : Len(chunks[j]) >= 2 /\ GetJobChunks(j, 1) # <<>>

\* C10: once the metadata of a job exists it is never written again or removed,
\* and no chunk is appended to the job's list any more.
C10_MetadataLast ==
    [][\A j \in Jobs :
          j \in DOMAIN meta =>
              /\ j \in DOMAIN meta'
              /\ meta'[j] = meta[j]
              /\ chunks'[j] = chunks[j]]_vars

C10_Witness ==
    \E j \in DOMAIN meta : Len(chunks[j]) >= 1 /\ meta[j].total_chunks = Len(chunks[j])

C12_AllChunksBeforeDone ==
    (sub.pc = "closed" /\ sub.sent[Len(sub.sent)] = Done) =>
        SubSeq(sub.sent, 1, Len(sub.sent) - 1) =
            [i \in 1..Len(chunks[sub.job]) |-> ChunkEvent(chunks[sub.job][i])]

\* C13 (as stated): a stream opened for a job that was enqueued eventually ends
\* (with [DONE] or [ERROR]), whether the job's processing succeeds or fails.
C13_StreamEnds ==
    (sub.pc # "idle" /\ sub.job < nextJob) ~> (sub.pc = "closed")

PartialRow(j, c) == [role |-> "assistant", job |-> j, partial |-> TRUE, content |-> c]

IsPrefix(a, b) == Len(a) <= Len(b) /\ SubSeq(b, 1, Len(a)) = a

\* the step in which the invocation of process_user_stream(u)'s job raises
\* with at least one chunk of the job in the relay
C15_FailsAfterChunk(u) ==
    /\ task[u].pc = "agent"
    /\ JobOf(u) \in failed'
    /\ chunks'[JobOf(u)] # <<>>

\* the text received when the job of u raises: full_response, with the
\* fragment just received when the raise comes from its chunk write
C15_Received(u) ==
    {task[u].full_response} \cup
    (IF task[u].chunk_index < MaxChunks
     THEN {task[u].full_response \o AgentFragment(task[u].chunk_index)}
     ELSE {})

C15_Persisted(u) ==
    \E c \in C15_Received(u) :
        /\ IsPrefix(JoinContent(chunks'[JobOf(u)]), c)
        /\ PartialRow(JobOf(u), c) \in history'[u]

\* C15 (as stated): when a job raises after at least one chunk was written, a
\* partial-marked assistant message with the text received so far is in the
\* conversation's history and the sequential processor handles the error.
C15_PartialPersisted ==
    [][\A u \in Users :
          C15_FailsAfterChunk(u) =>
              (task'[u].pc = "ack2" /\ C15_Persisted(u))]_vars

\* the save of the partial message is itself the call that fails
C15_PartialSaveFails(u) ==
    \/ AgentRaise(u, FALSE)
    \/ \E tok \in Tokens, written \in BOOLEAN : AgentYieldFail(u, tok, written, FALSE)
    \/ \E fullSaved \in BOOLEAN : CompleteFail(u, fullSaved, FALSE)

\* C15 (amended): when a job raises after at least one chunk was written, the
\* sequential processor handles the error, and a partial-marked assistant
\* message with the text received so far is in the conversation's history
\* unless the save of that message failed, in which case no partial-marked
\* message of the job exists.
C15_PartialPersistedUnlessSaveFails ==
    [][\A u \in Users :
          C15_FailsAfterChunk(u) =>
              /\ task'[u].pc = "ack2"
              /\ IF C15_PartialSaveFails(u)
                 THEN \A r \in history'[u] : ~(r.job = JobOf(u) /\ r.partial)
                 ELSE C15_Persisted(u)]_vars

C15_Witness ==
    \E u \in Users : \E i \in Positions(u) :
        /\ log[u][i] \in failed
        /\ chunks[log[u][i]] # <<>>
        /\ PartialRow(log[u][i], JoinContent(chunks[log[u][i]])) \in history[u]

\* the invocation on entry i of conversation u raises in this step
C16_Fails(u, i) == log[u][i] \in failed' /\ log[u][i] \notin failed

C16_NoPartialRow(u, i) ==
    /\ task'[u].pc = "ack2"
    /\ task'[u].cur = i
    /\ \A r \in history'[u] : ~(r.job = log[u][i] /\ r.partial)

C16_NothingReceived(u) ==
    \/ task[u].pc = "read"
    \/ /\ task[u].pc = "agent"
       /\ task[u].full_response = <<>>
       /\ ~ \E tok \in Tokens, written, saved \in BOOLEAN :
               AgentYieldFail(u, tok, written, saved)

C17_ChunkWriteFailureTolerated ==
    [][\A u \in Users :
          (\E tok \in Tokens, written, saved \in BOOLEAN :
               AgentYieldFail(u, tok, written, saved))
              => (task'[u].pc = "agent" /\ JobOf(u) \notin failed')]_vars

\* C18 (as stated): an invocation whose agent call is stuck is eventually ended,
\* its entry acknowledged, and the conversation's coroutine reads on.
C18_StuckCallEnds ==
    \A u \in Users :
        (task[u].pc = "hung") ~> (task[u].pc = "read" /\ task[u].cur \in acked[u])

\* the entries of conversation u that are delivered but unacknowledged or were
\* never delivered
Outstanding(u) == Pending(u) \cup Undelivered(u)

\* C19 (as stated): the inspection of a conversation's log puts it into the
\* candidate set exactly when it has an outstanding entry; a conversation
\* whose entries are all acknowledged is left out.
C19_ExactlyOutstanding ==
    [][\A u \in Users :
          (loopPc = "inspect" /\ loopPc' = "inspect" /\ u \in scanned' \ scanned)
              => (u \in active' <=> Outstanding(u) # {})]_vars

\* C20 (as stated): when discovery ends on a failed inspection, every
\* conversation other than the one being inspected that has an outstanding
\* entry is in the candidate set.
C20_OthersStillReturned ==
    loopPc = "partial" =>
        \A u \in keys \ scanned : Outstanding(u) # {} => u \in active

C26_ChunkEvents == {i \in 1..Len(sub.sent) : sub.sent[i].type = "chunk"}

\* C26: the chunk events a subscription has sent carry strictly increasing
\* indices, the first of them index 0, so no chunk is sent twice, however the
\* subscriber's rounds interleave with the job's writes.
C26_IncreasingIndices ==
    /\ \A i, k \in C26_ChunkEvents :
          i < k => sub.sent[i].index < sub.sent[k].index
    /\ \A i \in C26_ChunkEvents :
          (\A k \in C26_ChunkEvents : i <= k) => sub.sent[i].index = 0
    /\ sub.last_index = Cardinality(C26_ChunkEvents) - 1

C26_Witness ==
    /\ sub.pc = "chunks"
    /\ sub.last_index = 0
    /\ Len(chunks[sub.job]) = 2
    /\ sub.job \notin DOMAIN meta

\* C27: in every step the chunk list that get_job_chunks returns for a job
\* extends the one it returned before the step: chunks are only added at the
\* end, none is changed or removed.
C27_AppendOnly ==
    [][\A j \in Jobs : IsPrefix(GetJobChunks(j, 0), GetJobChunks(j, 0)')]_vars

C27_Witness ==
    \E j \in Jobs :
        /\ Len(GetJobChunks(j, 0)) = MaxChunks
        /\ j \notin DOMAIN meta
        /\ j \notin failed

\* the relay keys of job j: its chunk list and its metadata record
C28_Relay(j) == <<chunks[j], IF j \in DOMAIN meta THEN <<meta[j]>> ELSE <<>>>>

\* C28: a step of process_user_stream(u) that is working on a job changes no
\* relay key of another job, and a step of process_user_stream(u) changes the
\* log, the delivered and the acknowledged entries of no other conversation;
\* what it acknowledges is the entry it was given.
C28_OwnKeysOnly ==
    [][\A u \in Users :
          (task'[u] # task[u] /\ \A v \in Users \ {u} : task'[v] = task[v])
          => /\ \A j \in Jobs :
                  C28_Relay(j)' # C28_Relay(j)
                  => (task[u].cur > 0 /\ j = JobOf(u))
             /\ \A v \in Users \ {u} :
                  /\ log'[v] = log[v]
                  /\ delivered'[v] = delivered[v]
                  /\ acked'[v] = acked[v]
             /\ log'[u] = log[u]
             /\ acked'[u] \ acked[u] \subseteq {task[u].cur}]_vars

C28_Witness ==
    \E u, v \in Users :
        /\ u # v
        /\ task[u].pc = "read" /\ task[u].cur \in acked[u]
        /\ JobOf(u) \in DOMAIN meta
        /\ task[v].pc = "agent"
        /\ Len(chunks[JobOf(v)]) > 0

\* C29: a step in which one conversation's task meets a failing call or a
\* failing job leaves the tasks of the other conversations as they are; a task
\* that has not returned can always take its next step; and a task returns
\* only when every entry of its conversation has been delivered, handed to
\* the job processor and acknowledged (unless the acknowledge calls failed).
C29_OthersUnaffected ==
    /\ [][\A u \in Users :
            ((failed' # failed \/ faults' # faults) /\ task'[u] # task[u])
            => \A v \in Users \ {u} :
                  task'[v] = task[v] /\ ntasks'[v] = ntasks[v]]_vars
    /\ [](\A v \in Users :
            ntasks[v] = 1 => ENABLED (TaskNext(v) \/ TaskSleep(v)))
    /\ [][\A v \in Users :
            ntasks'[v] < ntasks[v]
            => /\ Undelivered(v)' = {}
               /\ Pending(v)' \subseteq ackLost'[v]
               /\ \A i \in 1..delivered'[v] : log'[v][i] \in invoked']_vars

C29_Witness ==
    \E u, v \in Users :
        /\ u # v
        /\ task[u].pc = "ack2" /\ JobOf(u) \in failed
        /\ task[v].pc = "agent" /\ JobOf(v) \notin failed
        /\ Len(chunks[JobOf(v)]) < MaxChunks

\* C30: run_stream_consumer is in its sleep or in a discovery only when every
\* task it started has returned, and when it starts tasks none is running; so
\* a conversation that gets its first entry while tasks of a cycle are running
\* has no task before all of them have returned.
C30_CycleAfterAllReturned ==
    /\ [](loopPc # "gather" => \A u \in Users : ntasks[u] = 0)
    /\ [][(\E u \in Users : ntasks'[u] > ntasks[u])
            => \A v \in Users : ntasks[v] = 0 /\ task[v].pc = "idle"]_vars
    /\ [][(loopPc = "gather" /\ loopPc' # "gather")
            => \A v \in Users : ntasks[v] = 0]_vars

C30_Witness ==
    \E u, v \in Users :
        /\ loopPc = "gather"
        /\ ntasks[v] = 1 /\ task[v].pc = "agent"
        /\ ntasks[u] = 0 /\ delivered[u] = 0 /\ Len(log[u]) = 1

\* C31: every call of discover_active_streams returns: from every state in
\* which the consumer loop is inside the discovery it reaches the dispatch of
\* the returned set, whichever scan and inspection calls raise.
C31_DiscoveryReturns ==
    (loopPc \in {"discover", "inspect", "partial"}) ~> (loopPc \in {"gather", "sleep"})

\* process_user_stream(u) has not returned, enqueues have stopped and every
\* entry of the conversation has been delivered
C32_NothingLeft(u) == ntasks[u] = 1 /\ nextJob > MaxJobs /\ Undelivered(u) = {}

\* C32 (as stated): once its conversation has no undelivered entry left and
\* enqueues have stopped, process_user_stream returns, whichever read calls
\* raise.
C32_TaskReturns ==
    \A u \in Users : C32_NothingLeft(u) ~> (ntasks[u] = 0)

\* C32 (amended): the same, in the behaviours in which the read call raises
\* only finitely often.
C32_TaskReturnsUnlessReadKeepsFailing ==
    \A u \in Users :
        (<>[](task[u].pc # "sleep")) => (C32_NothingLeft(u) ~> (ntasks[u] = 0))

C32_Witness ==
    \E u \in Users :
        /\ C32_NothingLeft(u)
        /\ delivered[u] > 0
        /\ task[u].pc = "sleep"

\* job j is in the log of conversation u
C33_Queued(j, u) == \E i \in Positions(u) : log[u][i] = j

\* job j has been handed to the job processor and its entry is acknowledged
C33_Handled(j, u) ==
    \E i \in Positions(u) : log[u][i] = j /\ j \in invoked /\ i \in acked[u]

\* C33: with an available store and agent calls that end, every job that is
\* enqueued, in whichever conversation and at whichever point of the
\* discovery cycle, is eventually read by a processor and acknowledged.
C33_EveryJobHandled ==
    \A j \in Jobs : \A u \in Users : C33_Queued(j, u) ~> C33_Handled(j, u)

C33_Witness ==
    /\ nextJob > MaxJobs
    /\ \A u \in Users : Len(log[u]) > 0
    /\ \A j \in Jobs : \E u \in Users : C33_Handled(j, u)
    /\ failed # {}

\* C34: a status response with status queued carries an empty chunk list and
\* total_chunks 0, whatever the processor writes between the reads of the
\* request.
C34_QueuedHasNoChunks ==
    (poll.pc = "done" /\ poll.status = "queued")
    => (poll.chunks = <<>> /\ poll.total_chunks = 0)

\* the status get_stream_job_status infers for job j from the relay
C35_Status(j) ==
    LET st == StatusFromMetadata(GetJobMetadata(j)) IN
    IF st # "" THEN st ELSE StatusFromChunks(GetJobChunks(j, 0))

C35_Rank(st) == IF st = "queued" THEN 0 ELSE IF st = "in_progress" THEN 1 ELSE 2

\* C35: the status inferred for a job never moves backwards, also when the
\* chunk list and the metadata record expire under their TTLs.
C35_StatusNeverRegresses ==
    [][\A j \in Jobs : C35_Rank(C35_Status(j)') >= C35_Rank(C35_Status(j))]_vars

\* the assistant messages that the invocation on job j has put into the
\* history of conversation u
C36_AssistantRows(u, j) == {row \in history[u] : row.role = "assistant" /\ row.job = j}

\* C36: the invocation on a job leaves at most one assistant message in the
\* history, the full response or a partial-marked one, whichever of its steps
\* fails.
C36_OneAssistantMessage ==
    \A u \in Users : \A j \in Jobs : Cardinality(C36_AssistantRows(u, j)) <= 1

\* the step in which process_user_stream(u) is given an entry and its job
\* processor loads the conversation history
C37_Loads(u) == task[u].pc = "read" /\ task'[u].pc = "agent"

C38_Malformed(u, i) == i \in Positions(u) /\ MissingFields(log[u][i])

\* C38: the step that hands an entry lacking a required field to
\* process_single_message does not call the job processor and writes nothing
\* to the relay; the coroutine holding such an entry is in its except branch,
\* whose acknowledge is its next step; and in the end every entry, the
\* malformed one and those after it, is acknowledged.
C38_MalformedIsJobFailure ==
    /\ [][\A u \in Users :
            (delivered'[u] > delivered[u] /\ C38_Malformed(u, delivered'[u]))
            => /\ invoked' = invoked
               /\ relayVars' = relayVars
               /\ task'[u].pc = "ack2"
               /\ task'[u].cur = delivered'[u]]_vars
    /\ [](\A u \in Users :
            (task[u].cur > 0 /\ C38_Malformed(u, task[u].cur))
            => task[u].pc \in {"ack2", "read"})
    /\ [][\A u \in Users :
            (task[u].pc = "ack2" /\ C38_Malformed(u, task[u].cur) /\ task'[u] # task[u])
            => (task[u].cur \in acked'[u] /\ task'[u].pc = "read")]_vars
    /\ <>[](\A u \in Users : Positions(u) \subseteq acked[u])

C38_Witness ==
    \E u \in Users : \E i, k \in Positions(u) :
        /\ i < k
        /\ C38_Malformed(u, i) /\ i \in acked[u]
        /\ ~MissingFields(log[u][k]) /\ log[u][k] \in invoked /\ k \in acked[u]
        /\ chunks[log[u][k]] # <<>>

\* C39: a request with a document that is not a PDF is answered with status
\* 400 and appends nothing to any log.
C39_NonPdfRejectedWith400 ==
    [][\A u \in Users :
          EnqueueChatNonPdf(u) => (enq'.code = 400 /\ log' = log)]_vars

====
